---- MODULE Spec2Model ----
(***************************************************************************)
(* Retrieval pipeline of the industrial-training assistant:                *)
(*   server/ingest/vectorstore.py  FAISSVectorStore                        *)
(*   server/ingest/embedder.py     EmbeddingGenerator                      *)
(*   server/ingest/indexer.py      DocumentIndexer                         *)
(*   server/qa/retriever.py        DocumentRetriever                       *)
(*   server/qa/llm.py              LLMClient                               *)
(*                                                                         *)
(* A vector is [d |-> its length, c |-> <<x, y>>]: the length is what      *)
(* faiss compares against the index, the two coordinates carry direction   *)
(* and norm.  A unit vector is held in multiples of 1/Unit, so the inner   *)
(* product of two unit vectors is an integer in -Unit*Unit .. Unit*Unit.   *)
(***************************************************************************)
EXTENDS Integers, Sequences, FiniteSets, TLC

VARIABLES settings, embedder, store, disk, proc, job, llm, ret, reqs, sched

vars == <<settings, embedder, store, disk, proc, job, llm, ret, reqs, sched>>

(***************************************************************************)
(* Bounds of the model.                                                    *)
(***************************************************************************)
MaxVecs == 3        \* vectors an index holds before add_vectors is no longer called
MaxBatch == 2       \* vectors or metadata entries passed in one add_vectors call
MaxK == 2           \* largest k passed to search
MaxTexts == 2       \* texts passed in one generate_embeddings call
MaxFiles == 3       \* PDF files in the directory listing
MaxChunks == 2      \* chunks one file yields
MaxIndexed == 2     \* vectors the index holds before indexing stops adding files
MaxPool == 3        \* candidates search_documents returns to the retriever
MaxRetrieveK == 2   \* largest k passed to retrieve_relevant_chunks
MaxWorkers == 2     \* threads of the pool that runs the synchronous handlers
chunk_size == 4     \* TextChunker.chunk_size, scaled down from 500
overlap == 2        \* TextChunker.overlap, scaled down from 50
MaxSentences == 3   \* sentences of a page
MaxSentenceLen == 7 \* characters of a sentence
MaxPages == 2       \* pages of a PDF file
MaxDay == 7         \* days the clock runs through
MaxSends == 3       \* reminders sent by the scheduler

(***************************************************************************)
(* Program constants.                                                      *)
(***************************************************************************)
LocalDim == 384
GoogleDim == 768
OpenAIDim == 1536
Unit == 5

Dims == {LocalDim, GoogleDim, OpenAIDim}

(***************************************************************************)
(* Values.                                                                 *)
(***************************************************************************)
RawCoords == { <<2, 0>>, <<3, 4>>, <<0, 0>> }

Texts == { <<"a", "b">>, <<"c">> }

Metas == { [file_name |-> "f1.pdf", text |-> <<"a", "b">>],
           [file_name |-> "f2.pdf", text |-> <<"c">>] }

\* no metadata entry was passed together with the vector
NoMeta == [file_name |-> "", text |-> <<>>]

SeqsUpTo(S, n) == UNION { [1..m -> S] : m \in 0..n }

Min(a, b) == IF a <= b THEN a ELSE b

(***************************************************************************)
(* faiss.normalize_L2 and the inner product of IndexFlatIP.                *)
(***************************************************************************)
Norm(c) == CHOOSE n \in 0..(2 * Unit) : n * n = c[1] * c[1] + c[2] * c[2]

normalize_L2(c) ==
    IF Norm(c) = 0 THEN c
    ELSE << (Unit * c[1]) \div Norm(c), (Unit * c[2]) \div Norm(c) >>

InnerProduct(a, b) == a[1] * b[1] + a[2] * b[2]

(***************************************************************************)
(* The two files of the store.  state: "none" (no file), "ok" (a complete  *)
(* write), "torn" (a file that exists and cannot be read back).            *)
(***************************************************************************)
IndexFlatIP(dimension) == [d |-> dimension, vecs |-> <<>>]

NoIndexFile == [state |-> "none", content |-> IndexFlatIP(0)]
TornIndexFile == [state |-> "torn", content |-> IndexFlatIP(0)]
NoMetadataFile == [state |-> "none", content |-> <<>>]
TornMetadataFile == [state |-> "torn", content |-> <<>>]

EmptyDisk == [index_file |-> NoIndexFile, metadata_file |-> NoMetadataFile]

\* outcome of one write: done, failed before the file was opened, failed
\* after the file was truncated
WriteOutcomes == {"ok", "fail_untouched", "fail_torn"}

_load_or_create_index(dimension, dk) ==
    IF dk.index_file.state = "ok" THEN dk.index_file.content
    ELSE IndexFlatIP(dimension)

_load_metadata(dk) ==
    IF dk.metadata_file.state = "ok" THEN dk.metadata_file.content
    ELSE <<>>

FAISSVectorStore(dimension, dk) ==
    [dimension |-> dimension,
     index |-> _load_or_create_index(dimension, dk),
     metadata |-> _load_metadata(dk)]

_save_metadata(st, dk, out) ==
    CASE out = "ok" ->
           [dk EXCEPT !.metadata_file = [state |-> "ok", content |-> st.metadata]]
      [] out = "fail_torn" -> [dk EXCEPT !.metadata_file = TornMetadataFile]
      [] OTHER -> dk

_save_index(st, dk, out) ==
    CASE out = "ok" ->
           [dk EXCEPT !.index_file = [state |-> "ok", content |-> st.index]]
      [] out = "fail_torn" -> [dk EXCEPT !.index_file = TornIndexFile]
      [] OTHER -> dk

\* index.add followed by metadata.extend: entry i of the batch is stored
\* normalized; "with" is a history field, the metadata entry passed at the
\* same position of the call
Entries(vectors, metadata) ==
    [i \in 1..Len(vectors.vs) |->
        [c |-> normalize_L2(vectors.vs[i]),
         with |-> IF i <= Len(metadata) THEN metadata[i] ELSE NoMeta]]

\* the batch put in place of what the index held
index_add_Replacing(st, vectors, metadata) ==
    [st EXCEPT !.index.vecs = Entries(vectors, metadata)]

index_add(st, vectors, metadata) ==
    [st EXCEPT !.index.vecs = @ \o Entries(vectors, metadata)]

metadata_extend(st, metadata) ==
    [st EXCEPT !.metadata = @ \o metadata]

\* the result of add_vectors: the store, the disk, whether it raised, whether
\* it got past the early return
add_vectors(st, dk, vectors, metadata, iw, mw) ==
    IF vectors.vs = <<>> \/ metadata = <<>>
    THEN [store |-> st, disk |-> dk, raised |-> FALSE, mutated |-> FALSE]
    ELSE IF vectors.d # st.index.d
    THEN [store |-> st, disk |-> dk, raised |-> TRUE, mutated |-> FALSE]
    ELSE LET st1 == metadata_extend(index_add(st, vectors, metadata), metadata)
             dk1 == _save_index(st1, dk, iw)
             dk2 == _save_metadata(st1, dk1, mw)
         IN  [store |-> st1, disk |-> dk2, raised |-> FALSE, mutated |-> TRUE]

clear(st, dk, iw, mw) ==
    LET st1 == [st EXCEPT !.index = IndexFlatIP(st.dimension), !.metadata = <<>>]
        dk1 == _save_index(st1, dk, iw)
        dk2 == _save_metadata(st1, dk1, mw)
    IN  [store |-> st1, disk |-> dk2, raised |-> FALSE, mutated |-> TRUE]

(***************************************************************************)
(* search.  index.search returns the n best positions by inner product,    *)
(* best first; the order among equal scores is the library's, so every     *)
(* order is possible.  Positions are 1-based here: idx < len(metadata)     *)
(* reads p <= Len(metadata).                                               *)
(***************************************************************************)
Score(st, q, p) == InnerProduct(st.index.vecs[p].c, normalize_L2(q.c))

IndexSearch(st, q, n) ==
    { I \in [1..n -> 1..Len(st.index.vecs)] :
        /\ \A i, j \in 1..n : i < j => I[i] # I[j] /\ Score(st, q, I[i]) >= Score(st, q, I[j])
        /\ \A p \in 1..Len(st.index.vecs) :
             (\A i \in 1..n : I[i] # p) =>
                 \A i \in 1..n : Score(st, q, I[i]) >= Score(st, q, p) }

RECURSIVE Results(_, _, _)
Results(st, q, I) ==
    IF I = <<>> THEN <<>>
    ELSE IF Head(I) <= Len(st.metadata)
    THEN << [metadata |-> st.metadata[Head(I)], score |-> Score(st, q, Head(I))] >>
           \o Results(st, q, Tail(I))
    ELSE Results(st, q, Tail(I))

\* the set of results search can return; raised when faiss rejects the query
search(st, q, k) ==
    IF Len(st.index.vecs) = 0 THEN { [raised |-> FALSE, results |-> <<>>] }
    ELSE IF q.d # st.index.d THEN { [raised |-> TRUE, results |-> <<>>] }
    ELSE { [raised |-> FALSE, results |-> Results(st, q, I)] :
             I \in IndexSearch(st, q, Min(k, Len(st.index.vecs))) }

get_stats(st) == [total_vectors |-> Len(st.index.vecs), dimension |-> st.dimension]

(***************************************************************************)
(* A process that dies inside add_vectors or clear.  The memory is lost;   *)
(* the disk holds what the writes completed before the point did.          *)
(***************************************************************************)
CrashPoints == {"before_save_index", "in_save_index", "after_save_index",
                "in_save_metadata"}

DiskAtCrash(st1, dk, point) ==
    CASE point = "before_save_index" -> dk
      [] point = "in_save_index" -> _save_index(st1, dk, "fail_torn")
      [] point = "after_save_index" -> _save_index(st1, dk, "ok")
      [] point = "in_save_metadata" ->
           _save_metadata(st1, _save_index(st1, dk, "ok"), "fail_torn")

Snapshot(st) == [index |-> st.index, metadata |-> st.metadata]

NoRet == [op |-> "none"]

(***************************************************************************)
(* EmbeddingGenerator.  has_model: the attribute self.model is set.        *)
(* An embedding of a text is a vector whose length is the backend's and    *)
(* whose direction depends on the text alone.                              *)
(***************************************************************************)
EmbeddingGenerator(api_key, use_local, use_google) ==
    IF use_local
    THEN [use_local |-> TRUE, use_google |-> use_google,
          embedding_dim |-> LocalDim, has_model |-> TRUE]
    ELSE IF use_google
    THEN [use_local |-> FALSE, use_google |-> TRUE,
          embedding_dim |-> GoogleDim, has_model |-> FALSE]
    ELSE [use_local |-> FALSE, use_google |-> FALSE,
          embedding_dim |-> OpenAIDim, has_model |-> FALSE]

get_embedding_dimension(e) == e.embedding_dim

TextCoords(t) == IF t = <<"c">> THEN <<3, 4>> ELSE <<2, 0>>

Embeddings(d, texts) == [d |-> d, vs |-> [i \in 1..Len(texts) |-> TextCoords(texts[i])]]

NoVectors == [d |-> 0, vs |-> <<>>]

\* what the collaborators of one generate_embeddings call do:
\*   primary  the OpenAI request: answers, raises, or answers with one
\*            vector fewer than the texts it was sent
\*   load     the SentenceTransformer constructor of the fallback
\*   encode   model.encode of the local model
EmbedEnvs == [primary : {"ok", "raise", "short"},
              load : {"ok", "raise"},
              encode : {"ok", "raise"}]

AllOk == [primary |-> "ok", load |-> "ok", encode |-> "ok"]

\* results carry the embedder after the call, the vectors, whether the call
\* raised, and history fields: primary (OpenAI requests made), local
\* (model.encode calls made)
EmbedResult(e, vectors, raised, primary, local) ==
    [embedder |-> e, vectors |-> vectors, raised |-> raised,
     primary |-> primary, local |-> local]

_generate_local_embeddings(e, texts, env) ==
    IF ~e.has_model THEN EmbedResult(e, NoVectors, TRUE, 0, 0)
    ELSE IF env.encode = "raise" THEN EmbedResult(e, NoVectors, TRUE, 0, 1)
    ELSE EmbedResult(e, Embeddings(LocalDim, texts), FALSE, 0, 1)

\* use_local = True; model = SentenceTransformer(..); embedding_dim = 384
LoadLocalModel(e, env) ==
    IF env.load = "raise"
    THEN [embedder |-> [e EXCEPT !.use_local = TRUE], raised |-> TRUE]
    ELSE [embedder |-> [e EXCEPT !.use_local = TRUE, !.has_model = TRUE,
                                 !.embedding_dim = LocalDim],
          raised |-> FALSE]

_generate_google_embeddings(e, texts, env) ==
    LET l == LoadLocalModel(e, env)
    IN  IF l.raised THEN EmbedResult(l.embedder, NoVectors, TRUE, 0, 0)
        ELSE _generate_local_embeddings(l.embedder, texts, env)

_generate_openai_embeddings(e, texts, env) ==
    CASE env.primary = "raise" -> EmbedResult(e, NoVectors, TRUE, 1, 0)
      [] env.primary = "short" ->
           EmbedResult(e, Embeddings(OpenAIDim, SubSeq(texts, 1, Len(texts) - 1)),
                       FALSE, 1, 0)
      [] OTHER -> EmbedResult(e, Embeddings(OpenAIDim, texts), FALSE, 1, 0)

\* the except branch of generate_embeddings, entered with the embedder as
\* the failed attempt left it
Fallback(t, texts, env) ==
    IF ~t.embedder.use_local
    THEN LET l == LoadLocalModel(t.embedder, env)
         IN  IF l.raised
             THEN EmbedResult(l.embedder, NoVectors, TRUE, t.primary, t.local)
             ELSE LET r == _generate_local_embeddings(l.embedder, texts, env)
                  IN  EmbedResult(r.embedder, r.vectors, r.raised,
                                  t.primary, t.local + r.local)
    ELSE EmbedResult(t.embedder, NoVectors, FALSE, t.primary, t.local)

\* the method without its test for an empty list
generate_embeddings_NoEmptyTest(e, texts, env) ==
    LET t == IF e.use_local THEN _generate_local_embeddings(e, texts, env)
             ELSE IF e.use_google THEN _generate_google_embeddings(e, texts, env)
             ELSE _generate_openai_embeddings(e, texts, env)
    IN  IF t.raised THEN Fallback(t, texts, env) ELSE t

generate_embeddings(e, texts, env) ==
    IF texts = <<>> THEN EmbedResult(e, NoVectors, FALSE, 0, 0)
    ELSE LET t == IF e.use_local THEN _generate_local_embeddings(e, texts, env)
                  ELSE IF e.use_google THEN _generate_google_embeddings(e, texts, env)
                  ELSE _generate_openai_embeddings(e, texts, env)
         IN  IF t.raised THEN Fallback(t, texts, env) ELSE t

(***************************************************************************)
(* DocumentIndexer.__init__: the embedder by key priority, the store with  *)
(* the embedder's dimension over the files on disk.                        *)
(***************************************************************************)
Placeholder == "PUT_YOUR_GOOGLE_API_KEY_HERE"

SettingsSet == { [GOOGLE_API_KEY |-> g, OPENAI_API_KEY |-> o, GROQ_API_KEY |-> q] :
                   g \in {"", Placeholder, "gkey"}, o \in {"", "okey"},
                   q \in {"", "qkey"} }

NoKeys == [GOOGLE_API_KEY |-> "", OPENAI_API_KEY |-> "", GROQ_API_KEY |-> ""]

IndexerEmbedder_OpenAIFirst(cfg) ==
    IF cfg.OPENAI_API_KEY # ""
    THEN EmbeddingGenerator(cfg.OPENAI_API_KEY, FALSE, FALSE)
    ELSE IF cfg.GOOGLE_API_KEY # "" /\ cfg.GOOGLE_API_KEY # Placeholder
    THEN EmbeddingGenerator(cfg.GOOGLE_API_KEY, FALSE, TRUE)
    ELSE EmbeddingGenerator("", TRUE, FALSE)

IndexerEmbedder(cfg) ==
    IF cfg.GOOGLE_API_KEY # "" /\ cfg.GOOGLE_API_KEY # Placeholder
    THEN EmbeddingGenerator(cfg.GOOGLE_API_KEY, FALSE, TRUE)
    ELSE IF cfg.OPENAI_API_KEY # ""
    THEN EmbeddingGenerator(cfg.OPENAI_API_KEY, FALSE, FALSE)
    ELSE EmbeddingGenerator("", TRUE, FALSE)

DocumentIndexer(cfg, dk) ==
    [embedder |-> IndexerEmbedder(cfg),
     store |-> FAISSVectorStore(get_embedding_dimension(IndexerEmbedder(cfg)), dk)]

(***************************************************************************)
(* DocumentIndexer.index_directory, one file of the listing at a time.     *)
(* What the collaborators do with a file:                                  *)
(*   parse    extract_text_from_pdf returns the pages or an 'error' entry  *)
(*   chunker  process_pdf_pages returns the chunks or raises               *)
(*   chunks   the number of chunks it returns                              *)
(*   env      what the embedding backends do                               *)
(***************************************************************************)
FileName(i) == << "f1.pdf", "f2.pdf", "f3.pdf", "f4.pdf", "f5.pdf" >>[i]

ChunkTexts(n) == [j \in 1..n |-> IF j % 2 = 1 THEN <<"a", "b">> ELSE <<"c">>]

FileCases == [parse : {"ok", "error"}, chunker : {"ok", "raise"},
              chunks : 0..MaxChunks, env : EmbedEnvs]

ChunkMetadata(name, texts) ==
    [j \in 1..Len(texts) |-> [file_name |-> name, text |-> texts[j]]]

\* the outcome of one pass of the loop body: the objects after it, what it
\* adds to processed_files, total_chunks and errors, and history fields:
\* raised (an exception reached the except clause), inserted (index.add ran)
FileResult(e, st, dk, processed, chunks, errors, raised, inserted) ==
    [embedder |-> e, store |-> st, disk |-> dk, processed |-> processed,
     chunks |-> chunks, errors |-> errors, raised |-> raised,
     inserted |-> inserted]

\* processed_files counted before add_vectors is known to have returned
AfterAdd_CountedEarly(a, e, name, texts) ==
    IF a.raised
    THEN FileResult(e, a.store, a.disk, 1, 0, <<name>>, TRUE, FALSE)
    ELSE FileResult(e, a.store, a.disk, 1, Len(texts), <<>>, FALSE, a.mutated)

AfterAdd(a, e, name, texts) ==
    IF a.raised
    THEN FileResult(e, a.store, a.disk, 0, 0, <<name>>, TRUE, FALSE)
    ELSE FileResult(e, a.store, a.disk, 1, Len(texts), <<>>, FALSE, a.mutated)

AfterEmbed(g, st, dk, name, texts, iw, mw) ==
    IF g.raised
    THEN FileResult(g.embedder, st, dk, 0, 0, <<name>>, TRUE, FALSE)
    ELSE IF g.vectors.vs = <<>>
    THEN FileResult(g.embedder, st, dk, 0, 0, <<>>, FALSE, FALSE)
    ELSE AfterAdd(add_vectors(st, dk, g.vectors, ChunkMetadata(name, texts), iw, mw),
                  g.embedder, name, texts)

IndexOneFile(e, st, dk, name, c, iw, mw) ==
    IF c.parse = "error"
    THEN FileResult(e, st, dk, 0, 0, <<name>>, FALSE, FALSE)
    ELSE IF c.chunker = "raise"
    THEN FileResult(e, st, dk, 0, 0, <<name>>, TRUE, FALSE)
    ELSE IF c.chunks = 0
    THEN FileResult(e, st, dk, 0, 0, <<>>, FALSE, FALSE)
    ELSE AfterEmbed(generate_embeddings(e, ChunkTexts(c.chunks), c.env),
                    st, dk, name, ChunkTexts(c.chunks), iw, mw)

\* the return value: keys are the keys of the dictionary
Summary(j, st) ==
    [op |-> "index_directory",
     keys |-> {"processed_files", "total_chunks", "errors", "vector_store_stats"},
     processed_files |-> j.processed_files, total_chunks |-> j.total_chunks,
     errors |-> j.errors, vector_store_stats |-> get_stats(st),
     listing |-> j.n, attempted |-> j.attempted, inserted |-> j.inserted,
     failed |-> j.failed, unsaved |-> j.unsaved,
     vectors_before |-> j.vectors_before, metadata_before |-> j.metadata_before,
     metadata_after |-> Len(st.metadata)]

DirectoryNotFound ==
    [op |-> "index_directory", keys |-> {"error", "processed_files"},
     processed_files |-> 0, total_chunks |-> 0, errors |-> <<>>,
     vector_store_stats |-> get_stats(FAISSVectorStore(0, EmptyDisk)),
     listing |-> 0, attempted |-> <<>>, inserted |-> 0, failed |-> <<>>]

(***************************************************************************)
(* DocumentRetriever.  A text is a sequence of characters.                 *)
(* SequenceMatcher(None, a, b).ratio() is 2*M/T: M the characters in the   *)
(* matching blocks (the longest common block, then the same to its left    *)
(* and to its right), T the two lengths added; 1.0 when both are empty.    *)
(***************************************************************************)
lower(t) == [i \in 1..Len(t) |-> IF t[i] = "A" THEN "a" ELSE t[i]]

RECURSIVE lstrip(_)
lstrip(t) == IF t # <<>> /\ Head(t) = " " THEN lstrip(Tail(t)) ELSE t

RECURSIVE rstrip(_)
rstrip(t) ==
    IF t # <<>> /\ t[Len(t)] = " " THEN rstrip(SubSeq(t, 1, Len(t) - 1)) ELSE t

strip(t) == rstrip(lstrip(t))

\* the length of the common block that starts at a[i] and b[j]
RECURSIVE BlockLen(_, _, _, _)
BlockLen(a, b, i, j) ==
    IF i <= Len(a) /\ j <= Len(b) /\ a[i] = b[j]
    THEN 1 + BlockLen(a, b, i + 1, j + 1) ELSE 0

\* the longest block; of several, the one that starts first in a, and of
\* those the one that starts first in b
find_longest_match(a, b) ==
    LET Starts == (1..Len(a)) \X (1..Len(b))
        Better(x, y) ==
            \/ BlockLen(a, b, x[1], x[2]) > BlockLen(a, b, y[1], y[2])
            \/ /\ BlockLen(a, b, x[1], x[2]) = BlockLen(a, b, y[1], y[2])
               /\ (x[1] < y[1] \/ (x[1] = y[1] /\ x[2] <= y[2]))
        best == CHOOSE x \in Starts : \A y \in Starts : Better(x, y)
    IN  [i |-> best[1], j |-> best[2], size |-> BlockLen(a, b, best[1], best[2])]

RECURSIVE Matches(_, _)
Matches(a, b) ==
    IF a = <<>> \/ b = <<>> THEN 0
    ELSE LET m == find_longest_match(a, b)
         IN  IF m.size = 0 THEN 0
             ELSE m.size
                  + Matches(SubSeq(a, 1, m.i - 1), SubSeq(b, 1, m.j - 1))
                  + Matches(SubSeq(a, m.i + m.size, Len(a)),
                            SubSeq(b, m.j + m.size, Len(b)))

\* the ratio as a fraction
ratio(a, b) ==
    IF Len(a) + Len(b) = 0 THEN [num |-> 1, den |-> 1]
    ELSE [num |-> 2 * Matches(a, b), den |-> Len(a) + Len(b)]

_text_similarity(text1, text2) == ratio(lower(text1), lower(text2))

\* ratio > 0.8
TooSimilar(r) == 10 * r.num > 8 * r.den

\* score > 0.001, a score being a multiple of 1/(Unit*Unit)
AboveThreshold(score) == 1000 * score > Unit * Unit

\* only an identical text counts as seen
is_duplicate_ExactOnly(text, seen_texts) == text \in seen_texts

is_duplicate(text, seen_texts) ==
    \E seen_text \in seen_texts : TooSimilar(_text_similarity(text, seen_text))

InSeq(x, sq) == \E i \in 1..Len(sq) : sq[i] = x

\* the first loop, from candidate i on: the results accepted and the texts
\* seen so far
RECURSIVE StrictPass(_, _, _, _, _)
StrictPass(results, i, k, filtered, seen_texts) ==
    IF i > Len(results) THEN filtered
    ELSE IF /\ AboveThreshold(results[i].score)
            /\ strip(results[i].text) # <<>>
            /\ ~is_duplicate(strip(results[i].text), seen_texts)
    THEN IF Len(filtered) + 1 >= k THEN Append(filtered, results[i])
         ELSE StrictPass(results, i + 1, k, Append(filtered, results[i]),
                         seen_texts \cup {strip(results[i].text)})
    ELSE StrictPass(results, i + 1, k, filtered, seen_texts)

\* the second loop, entered when the first left fewer than k results
RECURSIVE Backfill(_, _, _, _)
Backfill(results, i, k, filtered) ==
    IF i > Len(results) THEN filtered
    ELSE IF ~InSeq(results[i], filtered) /\ strip(results[i].text) # <<>>
    THEN IF Len(filtered) + 1 >= k THEN Append(filtered, results[i])
         ELSE Backfill(results, i + 1, k, Append(filtered, results[i]))
    ELSE Backfill(results, i + 1, k, filtered)

\* retrieve_relevant_chunks from the list search_documents returned on
FilterResults(results, k) ==
    LET filtered == StrictPass(results, 1, k, <<>>, {})
    IN  IF Len(filtered) < k /\ results # <<>>
        THEN Backfill(results, 1, k, filtered)
        ELSE filtered

\* "\n\n".join(parts)
RECURSIVE Join(_)
Join(parts) ==
    IF parts = <<>> THEN <<>>
    ELSE IF Len(parts) = 1 THEN parts[1]
    ELSE parts[1] \o <<"\n", "\n">> \o Join(Tail(parts))

format_context(chunks) ==
    Join(SelectSeq([i \in 1..Len(chunks) |-> strip(chunks[i].text)],
                   LAMBDA t : t # <<>>))

(***************************************************************************)
(* DocumentIndexer.search_documents: the embedder after the call and the   *)
(* list returned, for each order the index may give to equal scores.       *)
(***************************************************************************)
FormatResults(results) ==
    [i \in 1..Len(results) |->
        [text |-> results[i].metadata.text,
         file_name |-> results[i].metadata.file_name,
         score |-> results[i].score, metadata |-> results[i].metadata]]

search_documents(e, st, query, k, env) ==
    IF strip(query) = <<>> THEN { [embedder |-> e, results |-> <<>>] }
    ELSE LET g == generate_embeddings(e, <<query>>, env)
         IN  IF g.raised \/ g.vectors.vs = <<>>
             THEN { [embedder |-> g.embedder, results |-> <<>>] }
             ELSE { [embedder |-> g.embedder,
                     results |-> IF r.raised THEN <<>> ELSE FormatResults(r.results)] :
                      r \in search(st, [d |-> g.vectors.d, c |-> g.vectors.vs[1]], k) }

(***************************************************************************)
(* LLMClient.  A reply is [kind, len]; a confidence is in tenths.          *)
(***************************************************************************)
ApologyPrefixLen == 31
NotFoundLen == 55

LLMClient(cfg, use_google, use_groq) ==
    [use_google |-> use_google, use_groq |-> use_groq,
     groq_client |-> use_groq /\ cfg.GROQ_API_KEY # "",
     google_api_key |-> IF ~use_groq /\ use_google THEN cfg.GOOGLE_API_KEY ELSE "",
     api_key |-> IF ~use_groq /\ ~use_google THEN cfg.OPENAI_API_KEY ELSE ""]

\* the client the application builds at startup
LifespanLLM(cfg) ==
    IF cfg.GROQ_API_KEY # "" THEN LLMClient(cfg, FALSE, TRUE)
    ELSE IF cfg.GOOGLE_API_KEY # "" /\ cfg.GOOGLE_API_KEY # Placeholder
    THEN LLMClient(cfg, TRUE, FALSE)
    ELSE LLMClient(cfg, FALSE, FALSE)

\* what the backend does with a request: answers with a text (its length
\* after strip and _format_numbered, whether it holds a hedging word),
\* answers without a text, or raises with a message of some length
BackendReplies ==
    [kind : {"text"}, len : {0, 50, 100, 101, 150, 200, 201, 250}, hedged : BOOLEAN]
        \cup [kind : {"no_text", "raise"}, len : {0, 10}, hedged : {FALSE}]

ContextLens == {0, 100, 500, 501, 600}

\* the paragraphs of the context as _generate_simple_response scores them
LocalCases == [scored : 0..2, substantial : BOOLEAN]

\* the heuristic without its bonus for a long context
_calculate_confidence_NoContextBonus(response_len, hedged, context_len) ==
    IF response_len = 0 \/ context_len = 0 THEN 0
    ELSE 5 + (IF response_len > 100 THEN 2 ELSE 0)
           + (IF response_len > 200 THEN 1 ELSE 0)
           - (IF hedged THEN 1 ELSE 0)

_calculate_confidence(response_len, hedged, context_len) ==
    IF response_len = 0 \/ context_len = 0 THEN 0
    ELSE LET c1 == 5 + (IF response_len > 100 THEN 2 ELSE 0)
             c2 == c1 + (IF response_len > 200 THEN 1 ELSE 0)
             c3 == c2 + (IF context_len > 500 THEN 2 ELSE 0)
             c4 == c3 - (IF hedged THEN 1 ELSE 0)
         IN  IF c4 < 0 THEN 0 ELSE IF c4 > 10 THEN 10 ELSE c4

Answer(kind, len, confidence, keys, model, raised) ==
    [response |-> [kind |-> kind, len |-> len], confidence |-> confidence,
     keys |-> keys, model |-> model, raised |-> raised]

\* the except clause of a backend method
ErrorAnswer(reply) ==
    Answer("apology", ApologyPrefixLen + reply.len, 0,
           {"response", "confidence", "error"}, "", FALSE)

CloudAnswer(reply, context_len, model) ==
    IF reply.kind = "text"
    THEN Answer("answer", reply.len,
                _calculate_confidence(reply.len, reply.hedged, context_len),
                {"response", "confidence", "model"}, model, FALSE)
    ELSE ErrorAnswer(reply)

\* the method without its try: the exception leaves generate_response
_generate_groq_response_Unguarded(reply, context_len) ==
    IF reply.kind = "text"
    THEN CloudAnswer(reply, context_len, "llama-3.3-70b-versatile")
    ELSE Answer("none", 0, 0, {}, "", TRUE)

_generate_groq_response(reply, context_len) ==
    CloudAnswer(reply, context_len, "llama-3.3-70b-versatile")

_generate_google_response(reply, context_len) ==
    CloudAnswer(reply, context_len, "gemini-pro")

_generate_openai_response(reply, context_len) ==
    CloudAnswer(reply, context_len, "gpt-3.5-turbo")

_generate_simple_response(context_len, lc) ==
    IF context_len = 0
    THEN Answer("not_found", NotFoundLen, 0,
                {"response", "confidence", "model"}, "local_fallback", FALSE)
    ELSE Answer("extract", context_len,
                IF lc.scored > 1 THEN 7
                ELSE IF lc.scored = 1 THEN 5
                ELSE IF lc.substantial THEN 4 ELSE 3,
                {"response", "confidence", "model"}, "local_fallback", FALSE)

Backend(l) ==
    IF l.use_groq /\ l.groq_client THEN "groq"
    ELSE IF l.use_google /\ l.google_api_key # "" THEN "google"
    ELSE IF l.api_key # "" THEN "openai"
    ELSE "local"

\* a client that answers from the context itself when its backend fails
generate_response_FallingBack(l, context_len, reply, lc) ==
    IF Backend(l) = "local" \/ reply.kind # "text"
    THEN _generate_simple_response(context_len, lc)
    ELSE CloudAnswer(reply, context_len, "llama-3.3-70b-versatile")

generate_response(l, context_len, reply, lc) ==
    CASE Backend(l) = "groq" -> _generate_groq_response(reply, context_len)
      [] Backend(l) = "google" -> _generate_google_response(reply, context_len)
      [] Backend(l) = "openai" -> _generate_openai_response(reply, context_len)
      [] OTHER -> _generate_simple_response(context_len, lc)

(***************************************************************************)
(* TextChunker.split_into_chunks from the sentences nltk.sent_tokenize     *)
(* found in the cleaned text of a page.  Sentence i of length n is made of *)
(* n characters that occur nowhere else, so that a character of a chunk    *)
(* tells where it came from.                                               *)
(***************************************************************************)
Alphabet ==
    << "a", "b", "c", "d", "e", "f", "g", "h", "i", "j", "k", "l", "m", "n",
       "o", "p", "q", "r", "s", "t", "u", "v", "w", "x", "y", "z", "0", "1",
       "2", "3", "4", "5", "6", "7", "8", "9" >>

Sentence(i, n) == [j \in 1..n |-> Alphabet[(i - 1) * MaxSentenceLen + j]]

chunk_data(current_chunk) ==
    [text |-> strip(current_chunk), chunk_length |-> Len(current_chunk)]

\* current_chunk[-overlap:] if len(current_chunk) > overlap else current_chunk
overlap_text(current_chunk) ==
    IF Len(current_chunk) > overlap
    THEN SubSeq(current_chunk, Len(current_chunk) - overlap + 1, Len(current_chunk))
    ELSE current_chunk

\* the loop from sentence i on, and the last chunk after it
RECURSIVE ChunkLoop(_, _, _, _)
ChunkLoop(sentences, i, chunks, current_chunk) ==
    IF i > Len(sentences)
    THEN IF strip(current_chunk) # <<>>
         THEN Append(chunks, chunk_data(current_chunk)) ELSE chunks
    ELSE IF Len(current_chunk) + Len(sentences[i]) > chunk_size /\ current_chunk # <<>>
    THEN ChunkLoop(sentences, i + 1, Append(chunks, chunk_data(current_chunk)),
                   overlap_text(current_chunk) \o <<" ">> \o sentences[i])
    ELSE ChunkLoop(sentences, i + 1, chunks,
                   IF current_chunk # <<>> THEN current_chunk \o <<" ">> \o sentences[i]
                   ELSE sentences[i])

split_into_chunks(sentences) == ChunkLoop(sentences, 1, <<>>, <<>>)

(***************************************************************************)
(* PDFParser.extract_text_from_pdf and OCRProcessor.extract_text_with_ocr. *)
(* A text is [src, len, stripped]: where it came from, len(text) and       *)
(* len(text.strip()).  What the OCR of one page does: convert_from_path    *)
(* returns no image, a call raises, or image_to_string returns a text.     *)
(***************************************************************************)
OcrMinChars == 100

extract_text_from_pdf(texts) ==
    LET pages == [i \in 1..Len(texts) |->
                    [page_number |-> i, text |-> texts[i],
                     char_count |-> texts[i].len,
                     has_text |-> texts[i].stripped > 0]]
    IN  [pages |-> pages,
         needs_ocr |-> \E i \in 1..Len(pages) : ~pages[i].has_text]

\* attempted: the OCR of the page was started (history field)
extract_text_with_ocr(pdf_data, ocr_available, outcomes) ==
    [pdf_data EXCEPT !.pages =
       [i \in 1..Len(pdf_data.pages) |->
          LET page_data == pdf_data.pages[i]
              out == outcomes[i]
              tried == ocr_available /\
                         (page_data.char_count < OcrMinChars \/ ~page_data.has_text)
              longer == /\ tried /\ out.kind = "text"
                        /\ out.text.stripped > page_data.text.stripped
          IN  [page_number |-> page_data.page_number,
               text |-> IF longer THEN out.text ELSE page_data.text,
               char_count |-> IF longer THEN out.text.len ELSE page_data.char_count,
               has_text |-> IF longer THEN out.text.stripped > 0
                            ELSE page_data.has_text,
               ocr_applied |-> longer,
               attempted |-> tried]]]

(***************************************************************************)
(* The chat handler.  A reply is [kind, len], len the number of its        *)
(* characters.                                                             *)
(***************************************************************************)
ChatK == 8

Contains(t, w) ==
    \E i \in 1..(Len(t) - Len(w) + 1) : SubSeq(t, i, i + Len(w) - 1) = w

Farewells == { <<"b", "y", "e">> }

ChatResponse(kind, len, raised) ==
    [reply |-> [kind |-> kind, len |-> len], language |-> "en", raised |-> raised]

\* the try block once the chunks are there; an answer that raised is an
\* exception inside the block
ChatAnswer(chunks, answer) ==
    IF chunks = <<>> THEN ChatResponse("not_found", 99, FALSE)
    ELSE IF answer.raised THEN ChatResponse("error", 79, FALSE)
    ELSE ChatResponse(answer.response.kind,
                      answer.response.len + (IF answer.confidence < 3 THEN 71 ELSE 0),
                      FALSE)

\* the reply without the request for details at low confidence
chat_NoClarification(ready, message, chunks, answer) ==
    IF ~ready THEN ChatResponse("initializing", 65, FALSE)
    ELSE IF strip(message) = <<>> THEN ChatResponse("greeting", 83, FALSE)
    ELSE IF \E w \in Farewells : Contains(lower(strip(message)), w)
    THEN ChatResponse("farewell", 66, FALSE)
    ELSE IF chunks = <<>> THEN ChatResponse("not_found", 99, FALSE)
    ELSE ChatResponse(answer.response.kind, answer.response.len, FALSE)

\* chunks: what retrieve_relevant_chunks returns for the message; answer:
\* what generate_response returns for the context made of them
chat(ready, message, chunks, answer) ==
    IF ~ready THEN ChatResponse("initializing", 65, FALSE)
    ELSE IF strip(message) = <<>> THEN ChatResponse("greeting", 83, FALSE)
    ELSE IF \E w \in Farewells : Contains(lower(strip(message)), w)
    THEN ChatResponse("farewell", 66, FALSE)
    ELSE ChatAnswer(chunks, answer)

Idle == [pc |-> "idle"]

(***************************************************************************)
(* The threads of the server: 0 is the event loop, which runs lifespan and *)
(* the async handlers (upload_pdf); 1..MaxWorkers are the threads of the   *)
(* pool, which run the handlers declared with def (reindex_documents,      *)
(* chat).                                                                  *)
(***************************************************************************)
EventLoop == 0

Workers == 1..MaxWorkers

Threads == {EventLoop} \cup Workers

NoRequest == [handler |-> "none", pc |-> "idle"]

NoRequests == [t \in Threads |-> NoRequest]

\* NotificationScheduler.__init__: the history is read from the log file once;
\* today is the clock's date, deadline the content of the deadline file
NotificationScheduler(log_file) ==
    [today |-> 0, deadline |-> <<>>, notification_history |-> log_file,
     log_file |-> log_file, sends |-> <<>>]

(***************************************************************************)
(* Initial state: nothing on disk, the application constructed under some  *)
(* configuration of the API keys.                                          *)
(***************************************************************************)
Init ==
    /\ settings \in SettingsSet
    /\ disk = EmptyDisk
    /\ embedder = DocumentIndexer(settings, disk).embedder
    /\ store = DocumentIndexer(settings, disk).store
    /\ proc = "up"
    /\ job = Idle
    /\ llm = LifespanLLM(settings)
    /\ ret = NoRet
    /\ reqs = NoRequests
    /\ sched = NotificationScheduler(<<>>)

\* no key configured: the embedder is local, the store has its dimension
InitLocal == Init /\ settings = NoKeys

\* one configuration for each branch of DocumentIndexer.__init__
IndexerSettings ==
    { [GOOGLE_API_KEY |-> "gkey", OPENAI_API_KEY |-> "", GROQ_API_KEY |-> ""],
      [GOOGLE_API_KEY |-> Placeholder, OPENAI_API_KEY |-> "okey", GROQ_API_KEY |-> ""],
      NoKeys }

InitIndexer == Init /\ settings \in IndexerSettings

(***************************************************************************)
(* Actions of the vector store.                                            *)
(***************************************************************************)
VectorArgs == { [d |-> d, vs |-> vs] :
                  d \in {LocalDim, OpenAIDim},
                  vs \in SeqsUpTo(RawCoords, MaxBatch) }

MetadataArgs == SeqsUpTo(Metas, MaxBatch)

\* a batch is the pair of arguments of one add_vectors call
Batches == VectorArgs \X MetadataArgs

\* batches as index_directory builds them when the embedder returns one
\* vector for each chunk, all of one direction
PairedBatches ==
    { b \in { [d |-> LocalDim, vs |-> vs] : vs \in SeqsUpTo({<<2, 0>>}, MaxBatch) }
              \X MetadataArgs : Len(b[1].vs) = Len(b[2]) }

\* one batch shape is enough where the writes are what varies
OneBatches ==
    { b \in { [d |-> LocalDim, vs |-> vs] : vs \in SeqsUpTo({<<2, 0>>}, MaxBatch) }
              \X SeqsUpTo({[file_name |-> "f1.pdf", text |-> <<"a", "b">>]}, MaxBatch) :
        Len(b[1].vs) = Len(b[2]) }

AddVectors(B, iws, mws) ==
    /\ proc = "up"
    /\ \E b \in B, iw \in iws, mw \in mws :
         /\ Len(store.index.vecs) + Len(b[1].vs) <= MaxVecs
         /\ Len(store.metadata) + Len(b[2]) <= MaxVecs
         /\ LET r == add_vectors(store, disk, b[1], b[2], iw, mw)
            IN  /\ store' = r.store
                /\ disk' = r.disk
                /\ ret' = [op |-> "add_vectors", raised |-> r.raised,
                           mutated |-> r.mutated,
                           added |-> b, iw |-> iw, mw |-> mw]
    /\ UNCHANGED <<settings, embedder, proc, job, llm, reqs, sched>>

Clear(iws, mws) ==
    /\ proc = "up"
    /\ \E iw \in iws, mw \in mws :
         LET r == clear(store, disk, iw, mw)
         IN  /\ store' = r.store
             /\ disk' = r.disk
             /\ ret' = [op |-> "clear", raised |-> r.raised, mutated |-> r.mutated,
                       iw |-> iw, mw |-> mw, removed |-> Len(store.index.vecs)]
    /\ UNCHANGED <<settings, embedder, proc, job, llm, reqs, sched>>

AddVectorsCrash(B) ==
    /\ proc = "up"
    /\ \E b \in B, point \in CrashPoints :
         /\ Len(store.index.vecs) + Len(b[1].vs) <= MaxVecs
         /\ Len(store.metadata) + Len(b[2]) <= MaxVecs
         /\ LET r == add_vectors(store, disk, b[1], b[2], "ok", "ok")
            IN  /\ r.mutated
                /\ disk' = DiskAtCrash(r.store, disk, point)
                /\ ret' = [op |-> "crash", pre |-> Snapshot(store),
                           post |-> Snapshot(r.store)]
    /\ proc' = "down"
    /\ UNCHANGED <<settings, embedder, store, job, llm, reqs, sched>>

ClearCrash ==
    /\ proc = "up"
    /\ \E point \in CrashPoints :
         LET r == clear(store, disk, "ok", "ok")
         IN  /\ disk' = DiskAtCrash(r.store, disk, point)
             /\ ret' = [op |-> "crash", pre |-> Snapshot(store),
                        post |-> Snapshot(r.store)]
    /\ proc' = "down"
    /\ UNCHANGED <<settings, embedder, store, job, llm, reqs, sched>>

\* a new process constructs the indexer over the files the old one left
Restart ==
    /\ proc = "down"
    /\ proc' = "up"
    /\ embedder' = DocumentIndexer(settings, disk).embedder
    /\ store' = DocumentIndexer(settings, disk).store
    /\ ret' = [op |-> "restart", pre |-> ret.pre, post |-> ret.post]
    /\ UNCHANGED <<settings, disk, job, llm, reqs, sched>>

\* the store with every write completing
SpecStore ==
    InitLocal /\ [][
       \/ AddVectors(Batches, {"ok"}, {"ok"})
       \/ Clear({"ok"}, {"ok"})
    ]_vars

\* the store with processes that die inside a mutation
SpecCrash ==
    InitLocal /\ [][
       \/ AddVectors(PairedBatches, {"ok"}, {"ok"})
       \/ Clear({"ok"}, {"ok"})
       \/ AddVectorsCrash(PairedBatches)
       \/ ClearCrash
       \/ Restart
    ]_vars

\* the store with writes that fail
SpecPersist ==
    InitLocal /\ [][
       \/ AddVectors(OneBatches, WriteOutcomes, WriteOutcomes)
       \/ Clear(WriteOutcomes, WriteOutcomes)
    ]_vars

(***************************************************************************)
(* The store with searches.  last_add: the batch of the add_vectors call   *)
(* that came right before, when it was one vector with one metadata entry. *)
(***************************************************************************)
QueryArgs == { [d |-> d, c |-> c] : d \in {LocalDim, OpenAIDim}, c \in RawCoords }

Search ==
    /\ proc = "up"
    /\ \E q \in QueryArgs, k \in 1..MaxK :
         \E r \in search(store, q, k) :
            ret' = [op |-> "search", q |-> q, k |-> k, raised |-> r.raised,
                    results |-> r.results,
                    after_add |-> ret.op = "add_vectors" /\ ret.mutated,
                    added |-> IF ret.op = "add_vectors" /\ ret.mutated
                              THEN ret.added ELSE <<>>]
    /\ UNCHANGED <<settings, embedder, store, disk, proc, job, llm, reqs, sched>>

SpecSearch ==
    InitLocal /\ [][
       \/ AddVectors(Batches, {"ok"}, {"ok"})
       \/ Clear({"ok"}, {"ok"})
       \/ Search
    ]_vars

GetStats ==
    /\ proc = "up"
    /\ ret' = [op |-> "get_stats", stats |-> get_stats(store)]
    /\ UNCHANGED <<settings, embedder, store, disk, proc, job, llm, reqs, sched>>

(***************************************************************************)
(* The embedding provider alone.                                           *)
(***************************************************************************)
TextArgs == SeqsUpTo(Texts, MaxTexts)

GenerateEmbeddings ==
    /\ proc = "up"
    /\ \E texts \in TextArgs, env \in EmbedEnvs :
         LET r == generate_embeddings(embedder, texts, env)
         IN  /\ embedder' = r.embedder
             /\ ret' = [op |-> "generate_embeddings", texts |-> texts,
                        was_local |-> embedder.use_local,
                        was_google |-> embedder.use_google,
                        env |-> env, vectors |-> r.vectors, raised |-> r.raised,
                        primary |-> r.primary, local |-> r.local]
    /\ UNCHANGED <<settings, store, disk, proc, job, llm, reqs, sched>>

SpecEmbedder == InitIndexer /\ [][GenerateEmbeddings]_vars

(***************************************************************************)
(* Construction under every configuration of the keys: the first process   *)
(* and the ones that follow a process that died, over the files it left.   *)
(***************************************************************************)
SpecConstruct ==
    Init /\ [][
       \/ GenerateEmbeddings
       \/ AddVectorsCrash(OneBatches)
       \/ ClearCrash
       \/ Restart
    ]_vars

(***************************************************************************)
(* The indexing pipeline.  job holds the locals of the index_directory     *)
(* call in progress: i is the position in the listing of the file the loop *)
(* takes next; attempted, inserted, failed and unsaved (the files whose    *)
(* vectors were added while a write of the files failed) are history       *)
(* fields, and so are mismatch (the files whose vectors add_vectors        *)
(* refused for their dimension) and mismatch_mutated (such a call changed  *)
(* the index or the metadata).                                             *)
(***************************************************************************)
\* the file reaches add_vectors with vectors that are not of the index's
\* dimension
DimensionMismatch(e, st, c) ==
    /\ c.parse = "ok" /\ c.chunker = "ok" /\ c.chunks > 0
    /\ LET g == generate_embeddings(e, ChunkTexts(c.chunks), c.env)
       IN  ~g.raised /\ g.vectors.vs # <<>> /\ g.vectors.d # st.index.d

\* the file names of the entries the index holds
IndexedNames(st) == { st.metadata[p].file_name : p \in 1..Len(st.metadata) }

IndexDirectoryBegin(modes) ==
    /\ proc = "up" /\ job.pc = "idle"
    /\ \E exists \in BOOLEAN, n \in 0..MaxFiles, incremental \in modes :
         IF exists
         THEN /\ job' = [pc |-> "indexing", n |-> n, i |-> 1, processed_files |-> 0,
                         total_chunks |-> 0, errors |-> <<>>, attempted |-> <<>>,
                         inserted |-> 0, failed |-> <<>>, unsaved |-> 0,
                         mismatch |-> 0, mismatch_mutated |-> FALSE,
                         incremental |-> incremental, indexed_files |-> {},
                         reindexed |-> {},
                         vectors_before |-> Len(store.index.vecs),
                         metadata_before |-> Len(store.metadata)]
              /\ ret' = NoRet
         ELSE /\ job' = Idle
              /\ ret' = DirectoryNotFound
    /\ UNCHANGED <<settings, embedder, store, disk, proc, llm, reqs, sched>>

IndexFile(cases, iws, mws) ==
    /\ proc = "up" /\ job.pc = "indexing" /\ job.i <= job.n
    /\ IF job.incremental /\ FileName(job.i) \in job.indexed_files
       THEN /\ job' = [job EXCEPT !.i = @ + 1]
            /\ UNCHANGED <<embedder, store, disk, sched>>
       ELSE
       \E c \in cases, iw \in iws, mw \in mws :
         /\ Len(store.index.vecs) + c.chunks <= MaxIndexed
         /\ LET r == IndexOneFile(embedder, store, disk, FileName(job.i), c, iw, mw)
            IN  /\ embedder' = r.embedder
                /\ store' = r.store
                /\ disk' = r.disk
                /\ job' = [job EXCEPT
                             !.i = @ + 1,
                             !.processed_files = @ + r.processed,
                             !.total_chunks = @ + r.chunks,
                             !.errors = @ \o r.errors,
                             !.attempted = Append(@, FileName(job.i)),
                             !.inserted = @ + (IF r.inserted THEN 1 ELSE 0),
                             !.unsaved = @ + (IF r.inserted /\ <<iw, mw>> # <<"ok", "ok">>
                                              THEN 1 ELSE 0),
                             !.mismatch = @ + (IF DimensionMismatch(embedder, store, c)
                                               THEN 1 ELSE 0),
                             !.mismatch_mutated =
                                 @ \/ (DimensionMismatch(embedder, store, c)
                                         /\ Snapshot(r.store) # Snapshot(store)),
                             !.failed = IF c.parse = "error" \/ r.raised
                                        THEN Append(@, FileName(job.i)) ELSE @,
                             !.reindexed =
                                 IF r.inserted /\ FileName(job.i) \in IndexedNames(store)
                                 THEN @ \cup {FileName(job.i)} ELSE @]
    /\ UNCHANGED <<settings, proc, llm, ret, reqs, sched>>

IndexDirectoryReturn ==
    /\ proc = "up" /\ job.pc = "indexing" /\ job.i > job.n
    /\ ret' = Summary(job, store)
    /\ job' = Idle
    /\ UNCHANGED <<settings, embedder, store, disk, proc, llm, reqs, sched>>

\* index_single_file on a file that exists: the file goes the way a file of
\* index_directory goes, and the dictionary returned tells the rest
IndexSingleFile(cases) ==
    /\ proc = "up" /\ job.pc = "idle"
    /\ \E c \in cases :
         /\ Len(store.index.vecs) + c.chunks <= MaxIndexed
         /\ LET r == IndexOneFile(embedder, store, disk, FileName(1), c, "ok", "ok")
            IN  /\ embedder' = r.embedder
                /\ store' = r.store
                /\ disk' = r.disk
                /\ ret' = IF r.processed = 1
                          THEN [op |-> "index_single_file", processed |-> TRUE,
                                keys |-> {"processed", "file_name", "chunks",
                                          "vector_store_stats"},
                                chunks |-> r.chunks,
                                vector_store_stats |-> get_stats(r.store),
                                vectors_before |-> Len(store.index.vecs),
                                metadata_before |-> Len(store.metadata),
                                metadata_after |-> Len(r.store.metadata)]
                          ELSE [op |-> "index_single_file", processed |-> FALSE,
                                keys |-> {"error", "processed"}]
    /\ UNCHANGED <<settings, proc, job, llm, reqs, sched>>

SpecIndexer ==
    InitIndexer /\ [][
       \/ IndexDirectoryBegin({FALSE})
       \/ IndexFile(FileCases, {"ok"}, {"ok"})
       \/ IndexDirectoryReturn
       \/ IndexSingleFile(FileCases)
    ]_vars

(***************************************************************************)
(* The retriever's filter over a list of candidates, best score first.     *)
(***************************************************************************)
PoolTexts == { <<"a", "b", "c", "d">>, <<"a", "b", "c", "d", "e">>,
               <<"A", "b", "c", "d">>, <<"x", "y">>, <<" ">> }

Candidates == [text : PoolTexts, page_number : {1, 2}, score : {20, 0}]

Pools == { p \in SeqsUpTo(Candidates, MaxPool) :
             \A i \in 1..(Len(p) - 1) : p[i].score >= p[i + 1].score }

InitRetriever ==
    /\ settings = NoKeys
    /\ disk = EmptyDisk
    /\ embedder = DocumentIndexer(settings, disk).embedder
    /\ store = DocumentIndexer(settings, disk).store
    /\ proc = "up"
    /\ job = Idle
    /\ llm = LifespanLLM(settings)
    /\ reqs = NoRequests
    /\ sched = NotificationScheduler(<<>>)
    /\ \E pool \in Pools, k \in 1..MaxRetrieveK :
         /\ Len(pool) <= 4 * k
         /\ ret = [op |-> "search_documents", results |-> pool, k |-> k]

\* strict: the number of results the first loop accepted
Retrieve ==
    /\ ret.op = "search_documents"
    /\ ret' = [op |-> "retrieve", pool |-> ret.results, k |-> ret.k,
               results |-> FilterResults(ret.results, ret.k),
               strict |-> Len(StrictPass(ret.results, 1, ret.k, <<>>, {}))]
    /\ UNCHANGED <<settings, embedder, store, disk, proc, job, llm, reqs, sched>>

SpecRetriever == InitRetriever /\ [][Retrieve]_vars

(***************************************************************************)
(* The generation client under every configuration of the keys.            *)
(***************************************************************************)
GenerateResponse ==
    /\ proc = "up"
    /\ \E context_len \in ContextLens, reply \in BackendReplies, lc \in LocalCases :
         ret' = [op |-> "generate_response", backend |-> Backend(llm),
                 context_len |-> context_len, reply |-> reply,
                 after_failure |-> (ret.op = "generate_response"
                                      /\ ret.reply.kind # "text"),
                 answer |-> generate_response(llm, context_len, reply, lc)]
    /\ UNCHANGED <<settings, embedder, store, disk, proc, job, llm, reqs, sched>>

SpecLLM == Init /\ [][GenerateResponse]_vars

(***************************************************************************)
(* The store and the pipeline over files whose writes can fail.            *)
(***************************************************************************)
\* a file with one chunk that parses or not, the embedder working
PlainFileCases ==
    { c \in FileCases : c.chunker = "ok" /\ c.chunks = 1 /\ c.env = AllOk }

SpecWriteFailure ==
    InitLocal /\ [][
       \/ Clear({"ok", "fail_untouched"}, {"ok", "fail_untouched"})
       \/ IndexDirectoryBegin({FALSE})
       \/ IndexFile(PlainFileCases, {"ok", "fail_untouched"}, {"ok", "fail_untouched"})
       \/ IndexDirectoryReturn
    ]_vars

\* index_directory in both modes over a directory that keeps its files
SpecIncremental ==
    InitLocal /\ [][
       \/ IndexDirectoryBegin(BOOLEAN)
       \/ IndexFile(PlainFileCases, {"ok"}, {"ok"})
       \/ IndexDirectoryReturn
    ]_vars

(***************************************************************************)
(* Queries against the index the pipeline fills.                           *)
(***************************************************************************)
SearchDocuments(queries, envs) ==
    /\ proc = "up" /\ job.pc = "idle"
    /\ \E query \in queries, k \in 1..MaxK, env \in envs :
         \E r \in search_documents(embedder, store, query, k, env) :
           \E chunks \in { FilterResults(r.results, k) } :
             /\ embedder' = r.embedder
             /\ ret' = [op |-> "search_documents", query |-> query, k |-> k,
                        results |-> r.results,
                        chunks |-> chunks,
                        context |-> format_context(chunks)]
    /\ UNCHANGED <<settings, store, disk, proc, job, llm, reqs, sched>>

SpecQuery ==
    InitIndexer /\ [][
       \/ IndexDirectoryBegin({FALSE})
       \/ IndexFile(FileCases, {"ok"}, {"ok"})
       \/ IndexDirectoryReturn
       \/ SearchDocuments(Texts \cup {<<" ">>}, EmbedEnvs)
    ]_vars

(***************************************************************************)
(* Every operation that reaches the store: direct calls and the pipeline.  *)
(***************************************************************************)
SpecEntries ==
    InitLocal /\ [][
       \/ AddVectors({ [d |-> LocalDim, vs |-> vs] :
                          vs \in SeqsUpTo({<<2, 0>>}, MaxBatch) }
                      \X SeqsUpTo({[file_name |-> "f1.pdf",
                                    text |-> <<"a", "b">>]}, MaxBatch),
                     {"ok"}, {"ok"})
       \/ Clear({"ok"}, {"ok"})
       \/ SearchDocuments({<<"a", "b">>}, {AllOk})
       \/ GetStats
       \/ IndexDirectoryBegin({FALSE})
       \/ IndexFile(PlainFileCases, {"ok"}, {"ok"})
       \/ IndexDirectoryReturn
    ]_vars

(***************************************************************************)
(* The chatbot folder indexed again and again, and files deleted from it.  *)
(* delete_pdf removes the file and its record in the PDF metadata; the     *)
(* store after it is the store before it.                                  *)
(***************************************************************************)
delete_pdf_Clearing(st, filename) ==
    IF filename \in IndexedNames(st)
    THEN [st EXCEPT !.index.vecs = <<>>, !.metadata = <<>>]
    ELSE st

delete_pdf(st, filename) == st

\* success: the file was in the folder
DeletePdf ==
    /\ proc = "up" /\ job.pc = "idle"
    /\ \E i \in 1..MaxFiles, success \in BOOLEAN :
         /\ store' = (IF success THEN delete_pdf(store, FileName(i)) ELSE store)
         /\ ret' = [op |-> "delete_pdf", filename |-> FileName(i),
                    success |-> success,
                    was_indexed |-> FileName(i) \in IndexedNames(store)]
    /\ UNCHANGED <<settings, embedder, disk, proc, job, llm, reqs, sched>>

SpecReindex ==
    InitLocal /\ [][
       \/ IndexDirectoryBegin({FALSE})
       \/ IndexFile(PlainFileCases, {"ok"}, {"ok"})
       \/ IndexDirectoryReturn
       \/ DeletePdf
       \/ SearchDocuments({<<"a", "b">>}, {AllOk})
    ]_vars

(***************************************************************************)
(* The chunker over the pages of up to MaxSentences sentences.             *)
(***************************************************************************)
Pages ==
    { [i \in 1..Len(lens) |-> Sentence(i, lens[i])] :
        lens \in SeqsUpTo(1..MaxSentenceLen, MaxSentences) }

InitChunker ==
    /\ settings = NoKeys
    /\ disk = EmptyDisk
    /\ embedder = DocumentIndexer(settings, disk).embedder
    /\ store = DocumentIndexer(settings, disk).store
    /\ proc = "up"
    /\ job = Idle
    /\ llm = LifespanLLM(settings)
    /\ reqs = NoRequests
    /\ sched = NotificationScheduler(<<>>)
    /\ \E sentences \in Pages : ret = [op |-> "sent_tokenize", sentences |-> sentences]

SplitIntoChunks ==
    /\ ret.op = "sent_tokenize"
    /\ ret' = [op |-> "split_into_chunks", sentences |-> ret.sentences,
               chunks |-> split_into_chunks(ret.sentences)]
    /\ UNCHANGED <<settings, embedder, store, disk, proc, job, llm, reqs, sched>>

SpecChunker == InitChunker /\ [][SplitIntoChunks]_vars

(***************************************************************************)
(* The parse and OCR steps of index_directory on one file.                 *)
(***************************************************************************)
InitOcr ==
    /\ settings = NoKeys
    /\ disk = EmptyDisk
    /\ embedder = DocumentIndexer(settings, disk).embedder
    /\ store = DocumentIndexer(settings, disk).store
    /\ proc = "up"
    /\ job = Idle
    /\ llm = LifespanLLM(settings)
    /\ reqs = NoRequests
    /\ sched = NotificationScheduler(<<>>)
    /\ \E texts \in SeqsUpTo({ [src |-> "pdf", len |-> n[1], stripped |-> n[2]] :
                                 n \in { <<0, 0>>, <<3, 0>>, <<50, 50>>, <<99, 97>>,
                                         <<100, 100>> } }, MaxPages) \ {<<>>},
          ocr_available \in BOOLEAN :
         ret = [op |-> "extract_text_from_pdf", ocr_available |-> ocr_available,
                pdf_data |-> extract_text_from_pdf(texts)]

\* indexer.py 82-84: needs_ocr decides whether the OCR processor is called
ApplyOcrIfNeeded ==
    /\ ret.op = "extract_text_from_pdf"
    /\ \E outcomes \in [1..Len(ret.pdf_data.pages) ->
                          { [kind |-> "no_image"], [kind |-> "raise"] } \cup
                          { [kind |-> "text",
                             text |-> [src |-> "ocr", len |-> n[1], stripped |-> n[2]]] :
                              n \in { <<0, 0>>, <<50, 50>>, <<52, 50>>, <<120, 120>> } }] :
         ret' = [op |-> "ocr", ocr_available |-> ret.ocr_available,
                 parsed |-> ret.pdf_data.pages,
                 called |-> ret.pdf_data.needs_ocr,
                 outcomes |-> outcomes,
                 pages |-> IF ret.pdf_data.needs_ocr
                           THEN extract_text_with_ocr(ret.pdf_data, ret.ocr_available,
                                                      outcomes).pages
                           ELSE [i \in 1..Len(ret.pdf_data.pages) |->
                                   [page_number |-> i,
                                    text |-> ret.pdf_data.pages[i].text,
                                    char_count |-> ret.pdf_data.pages[i].char_count,
                                    has_text |-> ret.pdf_data.pages[i].has_text,
                                    ocr_applied |-> FALSE, attempted |-> FALSE]]]
    /\ UNCHANGED <<settings, embedder, store, disk, proc, job, llm, reqs, sched>>

SpecOcr == InitOcr /\ [][ApplyOcrIfNeeded]_vars

(***************************************************************************)
(* Chat requests against the index the pipeline fills, one at a time.      *)
(* ready: the globals retriever and llm_client are set.                    *)
(***************************************************************************)
Messages == Texts \cup { <<>>, <<" ">>, <<"B", "y", "e", " ">> }

Chat ==
    /\ proc = "up" /\ job.pc = "idle"
    /\ \E ready \in BOOLEAN, message \in Messages :
         IF chat(ready, message, <<>>, ErrorAnswer([len |-> 0])).reply.kind # "not_found"
         THEN /\ embedder' = embedder
              /\ ret' = [op |-> "chat", message |-> message, chunks |-> <<>>,
                         reply |-> [kind |-> "none"],
                         response |-> chat(ready, message, <<>>,
                                           ErrorAnswer([len |-> 0]))]
         ELSE \E env \in { e \in EmbedEnvs : e.load = "ok" /\ e.primary # "short"
                                             /\ (e.primary = "ok") = (e.encode = "ok") } :
              \E r \in search_documents(embedder, store, strip(message), 4 * ChatK, env) :
              \E chunks \in { FilterResults(r.results, ChatK) } :
              \E context \in { format_context(chunks) } :
              \E reply \in IF chunks = <<>> \/ Backend(llm) = "local"
                           THEN {[kind |-> "none"]}
                           ELSE { b \in BackendReplies : b.len \in {0, 150} } :
              \E lc \in IF chunks # <<>> /\ Backend(llm) = "local"
                        THEN LocalCases ELSE {[scored |-> 0, substantial |-> FALSE]} :
                /\ embedder' = r.embedder
                /\ ret' = [op |-> "chat", message |-> message, chunks |-> chunks,
                           reply |-> reply,
                           response |-> chat(ready, message, chunks,
                                             generate_response(llm, Len(context),
                                                               reply, lc))]
    /\ UNCHANGED <<settings, store, disk, proc, job, llm, reqs, sched>>

SpecChat ==
    InitIndexer /\ [][
       \/ IndexDirectoryBegin({FALSE})
       \/ IndexFile(PlainFileCases, {"ok"}, {"ok"})
       \/ IndexDirectoryReturn
       \/ Chat
    ]_vars

(***************************************************************************)
(* The server: lifespan indexes the folder before the first request is     *)
(* served; then each thread runs one handler at a time.  A handler is a    *)
(* sequence of steps, and the steps of different threads interleave: the   *)
(* code takes no lock.  index_directory is stepped per file, add_vectors   *)
(* in two steps (index.add; metadata.extend and the two saves), search in  *)
(* two steps (index.search; the loop over metadata).                       *)
(***************************************************************************)
InitServer ==
    /\ settings = NoKeys
    /\ disk = EmptyDisk
    /\ embedder = DocumentIndexer(settings, disk).embedder
    /\ store = DocumentIndexer(settings, disk).store
    /\ proc = "up"
    /\ job = Idle
    /\ llm = LifespanLLM(settings)
    /\ ret = NoRet
    /\ sched = NotificationScheduler(<<>>)
    /\ \E n \in 0..1 :
         reqs = [NoRequests EXCEPT ![EventLoop] =
                   [handler |-> "lifespan", pc |-> "index_directory", files |-> n]]

Serving == reqs[EventLoop].handler # "lifespan"

\* upload_pdf of a chatbot PDF on the event loop, reindex_documents on a
\* worker: both call index_directory
BeginIndexDirectory(t) ==
    /\ Serving
    /\ reqs[t] = NoRequest
    /\ \E n \in 0..1 :
         reqs' = [reqs EXCEPT ![t] =
                    [handler |-> IF t = EventLoop THEN "upload_pdf"
                                 ELSE "reindex_documents",
                     pc |-> "index_directory", files |-> n]]
    /\ UNCHANGED <<settings, embedder, store, disk, proc, job, llm, ret, sched>>

\* a file parsed, chunked and embedded; add_vectors up to index.add
AddVectorsIndexAdd(t) ==
    /\ reqs[t].pc = "index_directory"
    /\ reqs[t].files > 0
    /\ Len(store.index.vecs) < MaxIndexed
    /\ \E c \in 1..MaxChunks :
         LET texts == ChunkTexts(c)
             meta == ChunkMetadata(FileName(1), texts)
         IN  /\ store' = index_add(store, Embeddings(LocalDim, texts), meta)
             /\ reqs' = [reqs EXCEPT ![t] = [@ EXCEPT !.pc = "add_vectors"]
                                              @@ [metadata |-> meta]]
    /\ UNCHANGED <<settings, embedder, disk, proc, job, llm, ret, sched>>

\* add_vectors from metadata.extend to its return
AddVectorsExtendAndSave(t) ==
    /\ reqs[t].pc = "add_vectors"
    /\ LET st1 == metadata_extend(store, reqs[t].metadata)
       IN  /\ store' = st1
           /\ disk' = _save_metadata(st1, _save_index(st1, disk, "ok"), "ok")
    /\ reqs' = [reqs EXCEPT ![t] = [handler |-> @.handler, pc |-> "index_directory",
                                    files |-> @.files - 1]]
    /\ UNCHANGED <<settings, embedder, proc, job, llm, ret, sched>>

EndIndexDirectory(t) ==
    /\ reqs[t].pc = "index_directory"
    /\ reqs[t].files = 0 \/ Len(store.index.vecs) >= MaxIndexed
    /\ reqs' = [reqs EXCEPT ![t] = NoRequest]
    /\ ret' = [op |-> "index_directory_done", handler |-> reqs[t].handler,
               stats |-> get_stats(store)]
    /\ UNCHANGED <<settings, embedder, store, disk, proc, job, llm, sched>>

\* chat on a worker, up to index.search inside search
ChatIndexSearch(t) ==
    /\ Serving
    /\ t \in Workers
    /\ reqs[t] = NoRequest
    /\ \E text \in Texts, k \in 1..MaxK :
         LET q == Embeddings(LocalDim, <<text>>)
             qv == [d |-> q.d, c |-> q.vs[1]]
         IN  \E I \in IF store.index.vecs = <<>> THEN {<<>>}
                      ELSE IndexSearch(store, qv, Min(k, Len(store.index.vecs))) :
               reqs' = [reqs EXCEPT ![t] = [handler |-> "chat", pc |-> "search",
                                            q |-> qv, I |-> I]]
    /\ UNCHANGED <<settings, embedder, store, disk, proc, job, llm, ret, sched>>

\* search from the loop over the positions to the end of chat
ChatResults(t) ==
    /\ reqs[t].pc = "search"
    /\ ret' = [op |-> "chat", results |-> Results(store, reqs[t].q, reqs[t].I),
               found |-> Len(reqs[t].I)]
    /\ reqs' = [reqs EXCEPT ![t] = NoRequest]
    /\ UNCHANGED <<settings, embedder, store, disk, proc, job, llm, sched>>

SpecServer ==
    InitServer /\ [][
       \E t \in Threads :
       \/ BeginIndexDirectory(t)
       \/ AddVectorsIndexAdd(t)
       \/ AddVectorsExtendAndSave(t)
       \/ EndIndexDirectory(t)
       \/ ChatIndexSearch(t)
       \/ ChatResults(t)
    ]_vars

(***************************************************************************)
(* The notification scheduler.  Dates are day numbers; the deadline file   *)
(* holds <<d>>, the parsed deadline date, or <<>> for none.                *)
(* sched.sends is a history of the calls of _send_notification made by     *)
(* check_and_send_notifications.                                           *)
(***************************************************************************)

_already_sent_LastEntryOnly(history, deadline_date, reminder_type) ==
    /\ history # <<>>
    /\ history[Len(history)].deadline_date = deadline_date
    /\ history[Len(history)].reminder_type = reminder_type
    /\ history[Len(history)].status = "sent"

_already_sent(history, deadline_date, reminder_type) ==
    \E i \in 1..Len(history) :
        /\ history[i].deadline_date = deadline_date
        /\ history[i].reminder_type = reminder_type
        /\ history[i].status = "sent"

\* one "if today == ...: if not self._already_sent(...)" block: the send
\* (which reports its failures and never raises), then _log_notification,
\* whose save may fail without notice
SendIfDue(s, days_before, reminder_type, save) ==
    IF /\ s.today = s.deadline[1] - days_before
       /\ ~_already_sent(s.notification_history, s.deadline[1], reminder_type)
    THEN LET history == Append(s.notification_history,
                               [deadline_date |-> s.deadline[1],
                                reminder_type |-> reminder_type,
                                status |-> "sent"])
         IN  [s EXCEPT !.sends = Append(@, <<s.deadline[1], reminder_type>>),
                       !.notification_history = history,
                       !.log_file = IF save = "ok" THEN history ELSE @]
    ELSE s

CheckAndSendNotifications ==
    /\ Len(sched.sends) < MaxSends
    /\ \E email \in {"ok", "fail"}, save \in {"ok", "fail"} :
         \E s \in { IF sched.deadline = <<>> THEN sched
                    ELSE SendIfDue(SendIfDue(sched, 7, "one_week", save),
                                   3, "three_days", save) } :
           /\ sched' = s
           /\ ret' = [op |-> "check_and_send_notifications",
                      email |-> email,
                      due |-> { t \in {"one_week", "three_days"} :
                          sched.deadline # <<>> /\
                          sched.today = sched.deadline[1] -
                                        (IF t = "one_week" THEN 7 ELSE 3) },
                      logged_before |-> { t \in {"one_week", "three_days"} :
                          sched.deadline # <<>> /\
                          _already_sent(sched.notification_history,
                                        sched.deadline[1], t) },
                      sent |-> { s.sends[i][2] :
                                 i \in Len(sched.sends) + 1..Len(s.sends) }]
    /\ UNCHANGED <<settings, embedder, store, disk, proc, job, llm, reqs>>

\* parse_deadline_pdf saves what the deadline parser found
SaveDeadlineInfo ==
    /\ \E deadline \in {<<>>} \cup { <<d>> : d \in 0..MaxDay },
          outcome \in {"ok", "open_fails", "write_fails"} :
         sched' = [sched EXCEPT !.deadline =
                     CASE outcome = "ok" -> deadline
                       [] outcome = "open_fails" -> @
                       [] OTHER -> <<>>]
    /\ UNCHANGED <<settings, embedder, store, disk, proc, job, llm, ret, reqs>>

NextDay ==
    /\ sched.today < MaxDay
    /\ sched' = [sched EXCEPT !.today = @ + 1]
    /\ UNCHANGED <<settings, embedder, store, disk, proc, job, llm, ret, reqs>>

SpecScheduler ==
    InitLocal /\ [][ \/ CheckAndSendNotifications
                     \/ SaveDeadlineInfo
                     \/ NextDay ]_vars

(***************************************************************************)
(* Claims about the vector store.                                          *)
(***************************************************************************)

\* C1 (as claimed): in every state the index holds as many vectors as the
\* metadata list has entries, and the vector at position i is the one that
\* was passed to add_vectors together with metadata[i].
C1_IndexMatchesMetadata ==
    proc = "up" =>
        /\ Len(store.index.vecs) = Len(store.metadata)
        /\ \A i \in 1..Len(store.metadata) : store.index.vecs[i].with = store.metadata[i]

\* C2 (as claimed): the store a new process loads after a process died
\* inside add_vectors or clear has as many vectors as metadata entries and is
\* the store as it was before the interrupted call or as the call would
\* have left it.
C2_CrashLeavesConsistentFiles ==
    ret.op = "restart" =>
        /\ Len(store.index.vecs) = Len(store.metadata)
        /\ Snapshot(store) \in {ret.pre, ret.post}

\* C3 (as claimed): when add_vectors, past its early return, or clear
\* returns without raising, the index file holds the index in memory and
\* the metadata file holds the metadata list in memory.
C3_WriteThrough ==
    (ret.op \in {"add_vectors", "clear"} /\ ret.mutated /\ ~ret.raised) =>
        /\ disk.index_file = [state |-> "ok", content |-> store.index]
        /\ disk.metadata_file = [state |-> "ok", content |-> store.metadata]

\* C9 (as claimed): a search with a query of the index's dimension returns
\* exactly min(k, number of vectors in the index) results, in order of
\* non-increasing score, and the empty sequence on an empty index, and does
\* not raise.
C9_SearchReturnsMinKTotal ==
    (ret.op = "search" /\ ret.q.d = store.index.d) =>
        /\ ~ret.raised
        /\ Len(ret.results) = Min(ret.k, Len(store.index.vecs))
        /\ \A i, j \in 1..Len(ret.results) :
             i < j => ret.results[i].score >= ret.results[j].score

\* C10 (as claimed): after add_vectors([v], [m]) with v non-zero, on an
\* index that holds no other vector of v's direction, search(v, 1) returns
\* the one result m with the score of a unit vector against itself.
C10_AddThenSearchReturnsIt ==
    (/\ ret.op = "search" /\ ret.after_add /\ ret.k = 1
     /\ Len(ret.added[1].vs) = 1 /\ Len(ret.added[2]) = 1
     /\ ret.added[1].vs[1] # <<0, 0>>
     /\ ret.q = [d |-> ret.added[1].d, c |-> ret.added[1].vs[1]]
     /\ \A p \in 1..(Len(store.index.vecs) - 1) :
           store.index.vecs[p].c # normalize_L2(ret.q.c))
    => ret.results = << [metadata |-> ret.added[2][1], score |-> Unit * Unit] >>

(***************************************************************************)
(* Claims about the embedding provider and the indexing pipeline.          *)
(***************************************************************************)

\* C4 (as claimed): the dimension the embedder reports is the dimension the
\* vector store was built with, in every state.
C4_EmbedderDimensionIsStoreDimension ==
    proc = "up" => get_embedding_dimension(embedder) = store.dimension

\* C5 (as claimed): a generate_embeddings call whose OpenAI request raises
\* leaves the provider on the local backend with dimension 384 and has run
\* the batch on the local model exactly once; a call made on the local
\* backend makes no OpenAI request and stays on the local backend.
C5_DegradeOnce ==
    ret.op = "generate_embeddings" =>
        /\ ret.was_local => (ret.primary = 0 /\ embedder.use_local)
        /\ (~ret.was_local /\ ~ret.was_google /\ ret.texts # <<>>
               /\ ret.env.primary = "raise")
           => /\ embedder.use_local
              /\ get_embedding_dimension(embedder) = LocalDim
              /\ ret.local = 1

\* C6: when index_directory returns its summary, every file of the listing
\* was taken, in listing order; processed_files is the number of files
\* whose vectors were added to the index; errors names, once each and in
\* order, the files whose parse failed or that raised.
C6_PartialFailureIsolation ==
    (ret.op = "index_directory" /\ "errors" \in ret.keys) =>
        /\ ret.attempted = [i \in 1..ret.listing |-> FileName(i)]
        /\ ret.processed_files = ret.inserted
        /\ ret.errors = ret.failed

\* three files, the second fails to parse: two processed, one error for it
C6_Witness ==
    /\ ret.op = "index_directory" /\ ret.listing = 3
    /\ ret.processed_files = 2 /\ ret.inserted = 2
    /\ ret.errors = << FileName(2) >>

(***************************************************************************)
(* Claims about the retriever and the generation client.                   *)
(***************************************************************************)

\* C7 (as claimed): retrieve_relevant_chunks returns at most k results and
\* no two of them have a text similarity ratio above 0.8.
C7_NoTwoResultsSimilar ==
    ret.op = "retrieve" =>
        /\ Len(ret.results) <= ret.k
        /\ \A i, j \in 1..Len(ret.results) :
             i < j => ~TooSimilar(_text_similarity(ret.results[i].text,
                                                   ret.results[j].text))

\* C7 (amended): retrieve_relevant_chunks returns at most k results, and no
\* two of the results the first loop accepted have a similarity ratio above
\* 0.8 between their stripped texts; a result the second loop adds may
\* repeat an earlier one.
C7_AtMostKAndStrictPassDistinct ==
    ret.op = "retrieve" =>
        /\ Len(ret.results) <= ret.k
        /\ ret.strict <= Len(ret.results)
        /\ \A i, j \in 1..ret.strict :
             i < j => ~TooSimilar(_text_similarity(strip(ret.results[i].text),
                                                   strip(ret.results[j].text)))

\* the pool holds a text twice: the first loop keeps one, the second loop
\* fills up to k with the other
C7_Witness ==
    /\ ret.op = "retrieve" /\ ret.k = 2 /\ Len(ret.results) = 2 /\ ret.strict = 1
    /\ ret.results[1].text = ret.results[2].text
    /\ AboveThreshold(ret.results[2].score)

\* C8: when the backend of generate_response raises, or answers without a
\* text, generate_response does not raise and returns confidence 0.0 and a
\* non-empty apology.
C8_BackendFailureGivesApology ==
    (ret.op = "generate_response" /\ ret.backend # "local"
        /\ ret.reply.kind # "text") =>
        /\ ~ret.answer.raised
        /\ ret.answer.confidence = 0
        /\ ret.answer.response.kind = "apology"
        /\ ret.answer.response.len > 0
        /\ {"response", "confidence"} \subseteq ret.answer.keys

\* the Groq request raised
C8_Witness ==
    /\ ret.op = "generate_response" /\ ret.backend = "groq"
    /\ ret.reply.kind = "raise"
    /\ ret.answer.response.kind = "apology"

(***************************************************************************)
(* Claims about the server.                                                *)
(***************************************************************************)
InIndexDirectory(t) == reqs[t].pc \in {"index_directory", "add_vectors"}

\* C11: no two index_directory calls are in progress at once, and no search
\* is in progress while an add_vectors is.
C11_IndexAccessSerialized ==
    \A t, u \in Threads :
        t # u => /\ ~(InIndexDirectory(t) /\ InIndexDirectory(u))
                 /\ ~(reqs[t].pc = "search" /\ reqs[u].pc = "add_vectors")

\* C12: a query (search_documents, and retrieve_relevant_chunks and
\* format_context on its results) leaves the index, the metadata, the files
\* and the embedder's backend and dimension unchanged.
C12_QueryIsReadOnly ==
    [][SearchDocuments(Texts \cup {<<" ">>}, EmbedEnvs) => UNCHANGED <<store, disk, embedder>>]_vars

\* C13: when a write of the index file or of the metadata file fails,
\* clear does not return as if it had succeeded, and index_directory, which
\* learns of add_vectors' failure by its raising, lists the file in errors
\* and does not count it as processed.
C13_WriteFailureSurfaced ==
    /\ (ret.op = "clear" /\ <<ret.iw, ret.mw>> # <<"ok", "ok">>) => ret.raised
    /\ (ret.op = "index_directory" /\ "errors" \in ret.keys) =>
          /\ ret.processed_files <= ret.inserted - ret.unsaved
          /\ ret.unsaved <= Len(ret.errors)

\* C14: add_vectors with vectors that are not of the index's dimension
\* fails and leaves the index and the metadata as they were, and
\* index_directory does not go on after it: it is not in its loop, about to
\* take the next file or to return its summary, with such a failure behind.
C14_DimensionMismatchIsFatal ==
    job.pc = "indexing" => (~job.mismatch_mutated /\ job.mismatch = 0)

\* C15: whatever index_directory returns has the counts processed_files and
\* total_chunks and the list errors, also for a directory that does not
\* exist and for a listing whose every file fails.
C15_AlwaysReturnsSummary ==
    ret.op = "index_directory" =>
        {"processed_files", "total_chunks", "errors"} \subseteq ret.keys

\* C16: every answer generate_response returns has a response, a
\* confidence between 0 and 1 and a model that names the backend.
C16_AnswerWellFormed ==
    ret.op = "generate_response" =>
        /\ {"response", "confidence", "model"} \subseteq ret.answer.keys
        /\ ret.answer.confidence \in 0..10
        /\ ret.answer.model # ""

\* C17: chat returns a response with a non-empty reply and a language for
\* every message, whatever the embedder, the index and the generation
\* backend do, and raises nothing.
C17_ChatAlwaysAnswers ==
    ret.op = "chat" =>
        /\ ~ret.response.raised
        /\ ret.response.reply.len > 0
        /\ ret.response.language # ""

\* the backend raised on a question that had chunks: the reply is the
\* backend method's apology with the request for details
C17_Witness ==
    /\ ret.op = "chat" /\ ret.chunks # <<>> /\ ret.reply.kind = "raise"
    /\ ret.response.reply.kind = "apology" /\ ret.response.reply.len > 0

\* C18: every chunk split_into_chunks emits is at most chunk_size + overlap
\* characters long, and every chunk after the first holds at most overlap
\* characters that the chunk before it holds too.
C18_ChunkLengthAndOverlapBounded ==
    ret.op = "split_into_chunks" =>
        /\ \A i \in 1..Len(ret.chunks) :
             Len(ret.chunks[i].text) <= chunk_size + overlap
        /\ \A i \in 2..Len(ret.chunks) :
             Cardinality({ p \in 1..Len(ret.chunks[i].text) :
                             /\ ret.chunks[i].text[p] # " "
                             /\ \E q \in 1..Len(ret.chunks[i - 1].text) :
                                  ret.chunks[i - 1].text[q] = ret.chunks[i].text[p] })
               <= overlap

\* C19: generate_embeddings of an empty list returns an empty list, calls
\* no backend (no request, no model.encode) and leaves the embedder, its
\* backend selection and its dimension, as it was.
C19_EmptyInputNoBackendCall ==
    [][(GenerateEmbeddings /\ ret'.texts = <<>>) =>
          /\ embedder' = embedder
          /\ ret'.vectors.vs = <<>> /\ ~ret'.raised
          /\ ret'.primary = 0 /\ ret'.local = 0]_vars

\* an empty list given to an embedder that is still on its cloud backend
C19_Witness ==
    /\ ret.op = "generate_embeddings" /\ ret.texts = <<>>
    /\ ~ret.was_local /\ ~embedder.use_local /\ ret.vectors.vs = <<>>

\* C20: a step that is not a clear keeps every vector and every metadata
\* entry the store holds, at its position (so the count does not decrease);
\* a clear leaves no vector and no metadata, and every search after it
\* returns the empty sequence.
C20_EntriesAppendOnlyUntilClear ==
    [][IF Clear({"ok"}, {"ok"})
       THEN /\ store'.index.vecs = <<>> /\ store'.metadata = <<>>
            /\ \A q \in QueryArgs, k \in 1..MaxK :
                 search(store', q, k) = { [raised |-> FALSE, results |-> <<>>] }
       ELSE /\ Len(store'.index.vecs) >= Len(store.index.vecs)
            /\ SubSeq(store'.index.vecs, 1, Len(store.index.vecs)) = store.index.vecs
            /\ Len(store'.metadata) >= Len(store.metadata)
            /\ SubSeq(store'.metadata, 1, Len(store.metadata)) = store.metadata]_vars

\* a clear of a store that held vectors
C20_Witness ==
    /\ ret.op = "clear" /\ ret.removed > 0
    /\ store.index.vecs = <<>> /\ store.metadata = <<>>

(***************************************************************************)
(* Claims about construction, incremental indexing and the one-way         *)
(* transition of the embedding provider.                                   *)
(***************************************************************************)

\* C21: right after construction the embedder is the Google one (768) when
\* the Google key is set and is not the placeholder, else the OpenAI one
\* (1536) when the OpenAI key is set, else the local one (384); the store
\* was constructed with the dimension of that embedder.
C21_BackendByPriority ==
    ret.op \in {"none", "restart"} =>
        LET g == settings.GOOGLE_API_KEY \notin {"", Placeholder}
            o == settings.OPENAI_API_KEY # ""
            dim == IF g THEN 768 ELSE IF o THEN 1536 ELSE 384
        IN  /\ embedder.use_local = (~g /\ ~o)
            /\ g => embedder.use_google
            /\ (~g /\ o) => ~embedder.use_google
            /\ get_embedding_dimension(embedder) = dim
            /\ store.dimension = dim

\* a process constructed with the placeholder as Google key and an OpenAI key
C21_Witness ==
    /\ ret.op = "restart"
    /\ settings.GOOGLE_API_KEY = Placeholder /\ settings.OPENAI_API_KEY # ""
    /\ ~embedder.use_local /\ ~embedder.use_google
    /\ store.dimension = OpenAIDim

\* C22 (as claimed): an index_directory call with incremental=True adds no
\* entries for a file that had entries in the index when the file was taken.
C22_IncrementalSkipsIndexed ==
    (job.pc = "indexing" /\ job.incremental) => job.reindexed = {}

\* C23 (as claimed): a generate_embeddings call in which nothing fails (the
\* request answers, the local model loads and encodes) leaves a provider
\* that is on Google or on OpenAI on that backend, with its dimension.
C23_BackendKeptWithoutFailure ==
    [][(GenerateEmbeddings /\ ret'.env = AllOk /\ ~embedder.use_local) =>
          /\ ~embedder'.use_local
          /\ embedder'.use_google = embedder.use_google
          /\ get_embedding_dimension(embedder') = get_embedding_dimension(embedder)
          /\ get_embedding_dimension(embedder') \in {768, 1536}]_vars

(***************************************************************************)
(* Claims about the two passes of retrieval, the OCR fallback and the      *)
(* confidence of an answer.                                                *)
(***************************************************************************)

\* C24 (as claimed): retrieve_relevant_chunks returns min(k, n) results, n
\* the number of candidates whose text is not empty once stripped; the
\* first ret.strict of them are candidates above the threshold, no two of
\* them near-duplicates.
C24_TwoPassFillsToK ==
    ret.op = "retrieve" =>
        LET n == Cardinality({ i \in 1..Len(ret.pool) : strip(ret.pool[i].text) # <<>> })
        IN  /\ Len(ret.results) = Min(ret.k, n)
            /\ n > 0 => ret.results # <<>>
            /\ \A i \in 1..ret.strict : AboveThreshold(ret.results[i].score)

\* C25 (as claimed): with OCR available, the OCR of a page is started
\* exactly when the parsed page has no text or fewer than 100 characters;
\* a page's text is the OCR output when that output, stripped, is strictly
\* longer than the parsed text, stripped, and is the parsed text otherwise,
\* also when OCR is not available or fails.
C25_OcrOnEveryShortPage ==
    ret.op = "ocr" =>
        \A i \in 1..Len(ret.pages) :
            LET short == ~ret.parsed[i].has_text \/ ret.parsed[i].char_count < 100
                out == ret.outcomes[i]
                longer == /\ out.kind = "text"
                          /\ out.text.stripped > ret.parsed[i].text.stripped
            IN  /\ ret.ocr_available => (ret.pages[i].attempted = short)
                /\ ~ret.ocr_available => ~ret.pages[i].attempted
                /\ ret.pages[i].text =
                      IF ret.pages[i].attempted /\ longer THEN out.text
                      ELSE ret.parsed[i].text

\* C26 (as claimed): the confidence of an answer a cloud backend gave is the
\* heuristic (5 tenths; +2 over 100 characters of answer; +1 over 200; +2
\* over 500 characters of context; -1 for a hedging word; clamped to 0..10)
\* for every answer and every context, the empty ones included.
C26_ConfidenceIsHeuristic ==
    (ret.op = "generate_response" /\ ret.backend # "local"
        /\ ret.reply.kind = "text" /\ (ret.reply.hedged => ret.reply.len > 0)) =>
        LET h == 5 + (IF ret.reply.len > 100 THEN 2 ELSE 0)
                   + (IF ret.reply.len > 200 THEN 1 ELSE 0)
                   + (IF ret.context_len > 500 THEN 2 ELSE 0)
                   - (IF ret.reply.hedged THEN 1 ELSE 0)
        IN  ret.answer.confidence = IF h < 0 THEN 0 ELSE IF h > 10 THEN 10 ELSE h

\* C26 (amended): the confidence of an answer a cloud backend gave is 0 when
\* the answer or the context is empty, and the heuristic otherwise.
C26_ConfidenceIsHeuristicUnlessEmpty ==
    (ret.op = "generate_response" /\ ret.backend # "local"
        /\ ret.reply.kind = "text" /\ (ret.reply.hedged => ret.reply.len > 0)) =>
        LET h == 5 + (IF ret.reply.len > 100 THEN 2 ELSE 0)
                   + (IF ret.reply.len > 200 THEN 1 ELSE 0)
                   + (IF ret.context_len > 500 THEN 2 ELSE 0)
                   - (IF ret.reply.hedged THEN 1 ELSE 0)
        IN  ret.answer.confidence =
              IF ret.reply.len = 0 \/ ret.context_len = 0 THEN 0
              ELSE IF h < 0 THEN 0 ELSE IF h > 10 THEN 10 ELSE h

\* a long answer of a cloud backend to a request with an empty context
C26_Witness ==
    /\ ret.op = "generate_response" /\ ret.backend # "local"
    /\ ret.reply.kind = "text" /\ ret.reply.len > 200
    /\ ret.context_len = 0 /\ ret.answer.confidence = 0

(***************************************************************************)
(* Claims about what indexing reports and keeps, the generation client's   *)
(* backend and the reminders.                                              *)
(***************************************************************************)

\* C27 (as claimed): total_chunks of an index_directory summary, and chunks
\* of an index_single_file result, is the number of vectors, and of
\* metadata entries, the call added to the index.
C27_ChunksCountIsIndexGrowth ==
    /\ (ret.op = "index_directory" /\ "total_chunks" \in ret.keys) =>
          /\ ret.total_chunks = ret.vector_store_stats.total_vectors - ret.vectors_before
          /\ ret.total_chunks = ret.metadata_after - ret.metadata_before
    /\ (ret.op = "index_single_file" /\ ret.processed) =>
          /\ ret.chunks = ret.vector_store_stats.total_vectors - ret.vectors_before
          /\ ret.chunks = ret.metadata_after - ret.metadata_before

C29_LLMBackendFixed ==
    /\ llm = LifespanLLM(settings)
    /\ ret.op = "generate_response" =>
          /\ ret.backend = Backend(LifespanLLM(settings))
          /\ ret.backend # "local" =>
                /\ ret.reply.kind = "text" =>
                      /\ ret.answer.response.kind = "answer"
                      /\ ret.answer.model =
                            CASE ret.backend = "groq" -> "llama-3.3-70b-versatile"
                              [] ret.backend = "google" -> "gemini-pro"
                              [] OTHER -> "gpt-3.5-turbo"
                /\ ret.reply.kind # "text" => ret.answer.response.kind = "apology"

\* the backend raised in two calls in a row
C29_Witness ==
    /\ ret.op = "generate_response" /\ ret.after_failure
    /\ ret.backend = "groq" /\ ret.reply.kind = "raise"
    /\ ret.answer.response.kind = "apology"

\* C30: over any number of runs of check_and_send_notifications, at most one
\* send is attempted for each pair of a deadline date and a reminder type,
\* every attempted pair is logged as sent, and a run that finds the pair
\* logged as sent attempts no send for it.
C30_ReminderSentAtMostOnce ==
    /\ \A i, j \in 1..Len(sched.sends) :
          sched.sends[i] = sched.sends[j] => i = j
    /\ \A i \in 1..Len(sched.sends) :
          _already_sent(sched.notification_history,
                        sched.sends[i][1], sched.sends[i][2])
    /\ ret.op = "check_and_send_notifications" =>
          ret.sent \cap ret.logged_before = {}

\* a second run on the matching day found the reminder logged and sent nothing
C30_Witness ==
    /\ ret.op = "check_and_send_notifications"
    /\ "one_week" \in ret.due \cap ret.logged_before
    /\ ret.sent = {}
    /\ Len(sched.sends) = 1
    /\ sched.log_file = <<>>

====
